---- MODULE Spec2Model ----
(***************************************************************************)
(* Model of syscontainer_build/cli.py: the four argparse sub-commands      *)
(* (generate-files, generate-dockerfile, build, tar), the custom actions   *)
(* that run when the positional argument of a sub-command is consumed, and *)
(* main()'s handling of a failed external command.                         *)
(*                                                                         *)
(* Strings that the program splits are sequences of one-character strings; *)
(* strings it only passes along are TLA+ strings.                          *)
(***************************************************************************)
EXTENDS Integers, Sequences, FiniteSets, TLC

(***************************************************************************)
(* Bounds of the model.                                                    *)
(***************************************************************************)
\* number of option arguments on one command line
MaxArgs == 3

(***************************************************************************)
(* Input alphabets.                                                        *)
(***************************************************************************)
\* values given to -D/--default
Tokens ==
    { <<"a", "=", "1">>, <<"a", "=", "2">>, <<"c", "=", "3">>,
      <<"b", "=", "2", "=", "2">>, <<"a">>, <<"a", "=">>, <<"=", "1">> }

\* values given to -c/--config
ConfigStrings ==
    { <<"x", "=", "1", " ", "y", "=", "2">>,
      <<"x", "=", "1", " ", " ", "y">>,
      <<"x", "=", "1", "=", "2">> }

\* values given to -d/--description
Descriptions == {"demo"}

\* values given to -s/--scope: two of the choices and one that is none of them
ScopeInputs == {"restricted", "public", "invalid-value"}

\* the other generate-dockerfile options, one non-default value each
DockerInputs ==
    { <<"output", "/out">>, <<"from_base", "fedora:latest">>,
      <<"maintainer", "me">>, <<"license", "GPL">>, <<"summary", "sum">>,
      <<"version", "2">>, <<"help_text", "help">>,
      <<"architecture", "arm">> }

\* values given to -p/--path of build: an existing and a missing directory
PathInputs == {"/ctx", "/missing"}

\* exit statuses of an external process
ExitStatuses == {0, 1}

\* directories the process may be started in
CwdChoices == {"/work", "/ctx"}

TempDir == "/tmp/T"
OutDir == "/out"
Image == "img"
None == "None"

OCITOOLS == <<"o", "c", "i", "t", "o", "o", "l", "s">>
GENERATE == <<"g", "e", "n", "e", "r", "a", "t", "e">>

VARIABLES
    pc,            \* position of the process
    cmd,           \* the sub-command selected
    ns,            \* the sub-parser's namespace
    nopts,         \* option arguments consumed so far
    posSeen,       \* the positional argument has been consumed
    values,        \* the positional's value handed to the action
    cwd,           \* the process working directory
    dirs,          \* directories that exist
    files,         \* files that exist: <<dir, name>> -> content
    output,        \* local: output
    manifest_struct, \* local: manifest_struct
    temp_dir,      \* local: temp_dir
    popd,          \* local: the directory the popd closure returns to
    ocitools_cmd,  \* local: ocitools_cmd
    exc,           \* exception propagating
    messages,      \* texts printed with parser._print_message
    error,         \* the message the process ends with
    exitCode,      \* exit status of the process, -1 while running
    calls,         \* external processes run: [argv, status]
    written,       \* paths written by this run, in order
    before,        \* options consumed before the positional
    after,         \* options consumed after the positional
    cwd0,          \* working directory the process started in
    files0         \* files that existed when the process started

vars == << pc, cmd, ns, nopts, posSeen, values, cwd, dirs, files, output,
           manifest_struct, temp_dir, popd, ocitools_cmd, exc, messages,
           error, exitCode, calls, written, before, after, cwd0, files0 >>

parserVars == << cmd, ns, nopts, posSeen, values, before, after >>
localVars == << output, manifest_struct, temp_dir, popd, ocitools_cmd >>
fsVars == << cwd, dirs, files, written >>
outVars == << messages, error, exitCode, calls, exc >>
constVars == << cwd0, files0 >>

(***************************************************************************)
(* Library functions as the program uses them.                             *)
(***************************************************************************)
RECURSIVE SplitFrom(_, _, _)
SplitFrom(s, sep, cur) ==
    IF s = <<>> THEN <<cur>>
    ELSE IF Head(s) = sep
         THEN <<cur>> \o SplitFrom(Tail(s), sep, <<>>)
         ELSE SplitFrom(Tail(s), sep, Append(cur, Head(s)))

\* str.split(sep): the pieces of s between the occurrences of sep
Split(s, sep) == SplitFrom(s, sep, <<>>)

\* a path as seen from the working directory wd
Resolve(wd, path) == IF path = "." THEN wd ELSE path

\* util.mkdir: creates the directory unless it exists, returns its full path
mkdir(path) == Resolve(cwd, path)

\* '{} not in a=b format. Skipping...'.format(item)
SkipMessage(item) == [kind |-> "skip", item |-> item]

(***************************************************************************)
(* Initial state: main() is about to parse the command line.               *)
(***************************************************************************)
StaleFiles ==
    [p \in {<<OutDir, "manifest.json">>, <<OutDir, "service.template">>,
            <<OutDir, "config.json.template">>, <<OutDir, "Dockerfile">>}
        |-> [kind |-> "stale"]]

Init ==
    /\ pc = "main"
    /\ cmd = None
    /\ ns = <<>>
    /\ nopts = 0
    /\ posSeen = FALSE
    /\ values = None
    /\ cwd \in CwdChoices
    /\ cwd0 = cwd
    /\ \/ dirs = {"/work", "/ctx"} /\ files = <<>>
       \/ dirs = {"/work", "/ctx", OutDir} /\ files = StaleFiles
    /\ files0 = files
    /\ output = None
    /\ manifest_struct = <<>>
    /\ temp_dir = None
    /\ popd = None
    /\ ocitools_cmd = <<>>
    /\ exc = None
    /\ messages = <<>>
    /\ error = [kind |-> None]
    /\ exitCode = -1
    /\ calls = <<>>
    /\ written = <<>>
    /\ before = <<>>
    /\ after = <<>>

(***************************************************************************)
(* main(): the parser and its sub-parsers.                                 *)
(***************************************************************************)
Commands == {"generate-files", "generate-dockerfile", "build", "tar"}

\* choices= of -s/--scope
ScopeChoices ==
    {"private", "authoritative-source-only", "restricted", "public"}

\* the defaults a sub-parser puts in its namespace before it reads arguments
NamespaceDefaults(c) ==
    CASE c = "generate-files" ->
            [description |-> "UNKNOWN", config |-> <<>>, default |-> <<>>,
             output |-> None]
      [] c = "generate-dockerfile" ->
            [output |-> ".", from_base |-> "centos:latest",
             maintainer |-> "UNKNOWN", license |-> "UNKNOWN",
             summary |-> "UNKNOWN", version |-> "1",
             help_text |-> "No help", architecture |-> "x86_64",
             scope |-> "private", name |-> None]
      [] c = "build" -> [path |-> ".", tag |-> None]
      [] c = "tar" -> [image |-> None]

\* the first step of the action a sub-command's positional argument runs
ActionEntry(c) ==
    CASE c = "generate-files" -> "gf_mkdir"
      [] c = "generate-dockerfile" -> "gd_mkdir"
      [] c = "build" -> "ba_pushd"
      [] c = "tar" -> "ta_check_call"

\* the value of a sub-command's positional argument
PositionalInputs(c) ==
    CASE c = "generate-files" -> {OutDir}
      [] c = "generate-dockerfile" -> {"mycontainer"}
      [] c = "build" -> {Image}
      [] c = "tar" -> {Image}

\* parser.parse_args() hands the command line to the sub-parser named first
Main_SelectCommand ==
    /\ pc = "main"
    /\ \E c \in Commands :
          /\ cmd' = c
          /\ ns' = NamespaceDefaults(c)
    /\ pc' = "parse"
    /\ UNCHANGED << nopts, posSeen, values, before, after >>
    /\ UNCHANGED << localVars, fsVars, outVars, constVars >>

\* no sub-command on the command line: parse_args() returns at once
Main_NoCommand ==
    /\ pc = "main"
    /\ pc' = "main_exit"
    /\ UNCHANGED << parserVars, localVars, fsVars, outVars, constVars >>

\* an option is noted as standing before or after the positional argument
Noted(item) ==
    IF posSeen
    THEN after' = Append(after, item) /\ before' = before
    ELSE before' = Append(before, item) /\ after' = after

\* an option's action: setattr(namespace, dest, value), arg being the
\* option's argument on the command line
Store(dest, value, arg) ==
    /\ ns' = [ns EXCEPT ![dest] = value]
    /\ Noted([dest |-> dest, value |-> arg])
    /\ nopts' = nopts + 1
    /\ pc' = "parse"
    /\ UNCHANGED << cmd, posSeen, values >>
    /\ UNCHANGED << localVars, fsVars, outVars, constVars >>

\* -D/--default, action='append'
ParseDefault ==
    /\ pc = "parse" /\ cmd = "generate-files" /\ nopts < MaxArgs
    /\ \E tok \in Tokens : Store("default", Append(ns.default, tok), tok)

\* -d/--description
ParseDescription ==
    /\ pc = "parse" /\ cmd = "generate-files" /\ nopts < MaxArgs
    /\ \E d \in Descriptions : Store("description", d, d)

\* -c/--config
ParseConfig ==
    /\ pc = "parse" /\ cmd = "generate-files" /\ nopts < MaxArgs
    /\ \E c \in ConfigStrings : Store("config", c, c)

\* -o, -f, -m, -l, -S, -v, -H, -a of generate-dockerfile
ParseDockerOption ==
    /\ pc = "parse" /\ cmd = "generate-dockerfile" /\ nopts < MaxArgs
    /\ \E o \in DockerInputs : Store(o[1], o[2], o[2])

\* the check argparse makes of a value against choices=
ChoiceAccepted(value) == value \in ScopeChoices

\* -s/--scope with a value that is one of the choices
ParseScope ==
    /\ pc = "parse" /\ cmd = "generate-dockerfile" /\ nopts < MaxArgs
    /\ \E s \in ScopeInputs :
          /\ ChoiceAccepted(s)
          /\ Store("scope", s, s)

\* -s/--scope with a value that is none of the choices: the parser ends
\* the process with "invalid choice"
ParseScopeInvalid ==
    /\ pc = "parse" /\ cmd = "generate-dockerfile" /\ nopts < MaxArgs
    /\ \E s \in ScopeInputs :
          /\ ~ChoiceAccepted(s)
          /\ Noted([dest |-> "scope", value |-> s])
          /\ error' = [kind |-> "invalid choice", dest |-> "scope",
                       value |-> s]
    /\ nopts' = nopts + 1
    /\ exitCode' = 2
    /\ pc' = "exit"
    /\ UNCHANGED << cmd, ns, posSeen, values, messages, calls, exc >>
    /\ UNCHANGED << localVars, fsVars, constVars >>

\* -p/--path of build
ParsePath ==
    /\ pc = "parse" /\ cmd = "build" /\ nopts < MaxArgs
    /\ \E p \in PathInputs : Store("path", p, p)

\* variant: the action is handed a namespace holding the defaults only
ParsePositionalDefaults ==
    /\ pc = "parse" /\ ~posSeen
    /\ \E v \in PositionalInputs(cmd) : values' = v
    /\ posSeen' = TRUE
    /\ ns' = NamespaceDefaults(cmd)
    /\ pc' = ActionEntry(cmd)
    /\ UNCHANGED << cmd, nopts, before, after >>
    /\ UNCHANGED << localVars, fsVars, outVars, constVars >>

\* the positional argument is consumed: its action runs now, with the
\* namespace as it stands
ParsePositional ==
    /\ pc = "parse" /\ ~posSeen
    /\ \E v \in PositionalInputs(cmd) : values' = v
    /\ posSeen' = TRUE
    /\ pc' = ActionEntry(cmd)
    /\ UNCHANGED << cmd, ns, nopts, before, after >>
    /\ UNCHANGED << localVars, fsVars, outVars, constVars >>

\* the command line ends: a missing positional argument is an error
ParseEnd ==
    /\ pc = "parse"
    /\ IF posSeen
       THEN /\ pc' = "main_exit"
            /\ UNCHANGED << error, exitCode >>
       ELSE /\ pc' = "exit"
            /\ error' = [kind |-> "required"]
            /\ exitCode' = 2
    /\ UNCHANGED << parserVars, localVars, fsVars, constVars >>
    /\ UNCHANGED << messages, calls, exc >>

\* an exception leaves an action; the rest of the command line is not read
Raise(e) ==
    /\ exc' = e
    /\ pc' = "main_except"

\* except subprocess.CalledProcessError: parser.error(...) exits with 2
ErrorExitCode == 2

Main_Except ==
    /\ pc = "main_except" /\ exc = "CalledProcessError"
    /\ error' = [kind |-> "Unable to execute command",
                 argv |-> calls[Len(calls)].argv,
                 status |-> calls[Len(calls)].status]
    /\ exitCode' = ErrorExitCode
    /\ pc' = "exit"
    /\ UNCHANGED << parserVars, localVars, fsVars, constVars >>
    /\ UNCHANGED << messages, calls, exc >>

\* any other exception is not caught: traceback, exit status 1
Main_Uncaught ==
    /\ pc = "main_except" /\ exc # "CalledProcessError"
    /\ error' = [kind |-> "Traceback", exception |-> exc]
    /\ exitCode' = 1
    /\ pc' = "exit"
    /\ UNCHANGED << parserVars, localVars, fsVars, constVars >>
    /\ UNCHANGED << messages, calls, exc >>

\* raise SystemExit
Main_Exit ==
    /\ pc = "main_exit"
    /\ exitCode' = 0
    /\ pc' = "exit"
    /\ UNCHANGED << parserVars, localVars, fsVars, constVars >>
    /\ UNCHANGED << messages, error, calls, exc >>

(***************************************************************************)
(* Helpers shared by the actions.                                          *)
(***************************************************************************)
\* open(path, 'w') ... write(content): the file holds content afterwards
WriteFile(path, content) ==
    /\ files' = (path :> content) @@ files
    /\ written' = Append(written, path)

\* util.pushd(dir): remembers the working directory and changes to dir
pushd(dir) ==
    /\ popd' = cwd
    /\ cwd' = Resolve(cwd, dir)

\* the closure util.pushd returned: back to the remembered directory
popd_call == cwd' = popd

\* variant: the exit status is not looked at, as with subprocess.call
CheckCallIgnoresStatus(status) == FALSE

\* subprocess.check_call raises CalledProcessError on a nonzero status
CheckCallRaises(status) == status # 0

\* an action returned: the parser goes on; or it raised
Leave == IF exc = None THEN pc' = "parse" ELSE pc' = "main_except"

(***************************************************************************)
(* GenerateFilesAction.__call__                                            *)
(***************************************************************************)
\* output = util.mkdir(values)
GF_Mkdir ==
    /\ pc = "gf_mkdir"
    /\ output' = mkdir(values)
    /\ dirs' = dirs \cup {mkdir(values)}
    /\ pc' = "gf_overrides"
    /\ UNCHANGED << manifest_struct, temp_dir, popd, ocitools_cmd >>
    /\ UNCHANGED << cwd, files, written >>
    /\ UNCHANGED << parserVars, outVars, constVars >>

\* variant: the first two pieces are taken and the rest dropped
UnpacksAtLeastTwo(parts) == Len(parts) >= 2

\* variant: a piece that is empty makes the token malformed
UnpacksBothSides(parts) ==
    Len(parts) = 2 /\ parts[1] # <<>> /\ parts[2] # <<>>

\* k, v = item.split('='): unpacking needs exactly two pieces
Unpacks(parts) == Len(parts) = 2

\* variant: a key that is present keeps its value
AssignKeepsFirst(dv, k, v) == dv @@ (k :> v)

\* manifest_struct['defaultValues'][k] = v
Assign(dv, k, v) == (k :> v) @@ dv

\* the loop over namespace.default: dv is defaultValues, msgs what it printed
RECURSIVE OverridesLoop(_, _, _)
OverridesLoop(items, dv, msgs) ==
    IF items = <<>> THEN [defaultValues |-> dv, printed |-> msgs]
    ELSE LET item == Head(items)
             parts == Split(item, "=")
         IN  IF Unpacks(parts)
             THEN OverridesLoop(Tail(items),
                                Assign(dv, parts[1], parts[2]), msgs)
             ELSE OverridesLoop(Tail(items), dv,
                                Append(msgs, SkipMessage(item)))

GF_Overrides ==
    /\ pc = "gf_overrides"
    /\ LET r == OverridesLoop(ns.default, <<>>, <<>>)
       IN  /\ manifest_struct' = [version |-> "1.0",
                                  defaultValues |-> r.defaultValues]
           /\ messages' = messages \o r.printed
    /\ pc' = "gf_write_manifest"
    /\ UNCHANGED << output, temp_dir, popd, ocitools_cmd >>
    /\ UNCHANGED << error, exitCode, calls, exc >>
    /\ UNCHANGED << parserVars, fsVars, constVars >>

\* json.dump(manifest_struct, manifest, indent='    ')
GF_WriteManifest ==
    /\ pc = "gf_write_manifest"
    /\ WriteFile(<<output, "manifest.json">>, manifest_struct)
    /\ pc' = "gf_write_service"
    /\ UNCHANGED << cwd, dirs >>
    /\ UNCHANGED << parserVars, localVars, outVars, constVars >>

\* service.template.j2 rendered with description=namespace.description
RenderService(n) ==
    [template |-> "service.template.j2", description |-> n.description]

GF_WriteService ==
    /\ pc = "gf_write_service"
    /\ WriteFile(<<output, "service.template">>, RenderService(ns))
    /\ pc' = "gf_mkdtemp"
    /\ UNCHANGED << cwd, dirs >>
    /\ UNCHANGED << parserVars, localVars, outVars, constVars >>

\* temp_dir = tempfile.mkdtemp(); popd = util.pushd(temp_dir)
GF_Mkdtemp ==
    /\ pc = "gf_mkdtemp"
    /\ temp_dir' = TempDir
    /\ dirs' = dirs \cup {TempDir}
    /\ pushd(TempDir)
    /\ pc' = "gf_build_cmd"
    /\ UNCHANGED << output, manifest_struct, ocitools_cmd >>
    /\ UNCHANGED << files, written >>
    /\ UNCHANGED << parserVars, outVars, constVars >>

\* ocitools_cmd + item.split('='): adding two lists raises no ValueError
ConcatRaises(parts) == FALSE

\* the loop over namespace.config.split(' ')
RECURSIVE ConfigLoop(_, _, _)
ConfigLoop(items, argv, msgs) ==
    IF items = <<>> THEN [ocitools_cmd |-> argv, printed |-> msgs]
    ELSE LET item == Head(items)
             parts == Split(item, "=")
         IN  IF ~ConcatRaises(parts)
             THEN ConfigLoop(Tail(items), argv \o parts, msgs)
             ELSE ConfigLoop(Tail(items), argv,
                             Append(msgs, SkipMessage(item)))

GF_BuildCmd ==
    /\ pc = "gf_build_cmd"
    /\ LET r == ConfigLoop(Split(ns.config, " "), <<OCITOOLS, GENERATE>>,
                           <<>>)
       IN  /\ ocitools_cmd' = r.ocitools_cmd
           /\ messages' = messages \o r.printed
    /\ pc' = "gf_check_call"
    /\ UNCHANGED << output, manifest_struct, temp_dir, popd >>
    /\ UNCHANGED << error, exitCode, calls, exc >>
    /\ UNCHANGED << parserVars, fsVars, constVars >>

\* subprocess.check_call(ocitools_cmd): ocitools exits with some status and
\* has or has not left a config.json in the working directory
GF_CheckCall ==
    /\ pc = "gf_check_call"
    /\ \E status \in ExitStatuses, produced \in BOOLEAN :
          /\ calls' = Append(calls, [argv |-> ocitools_cmd,
                                     status |-> status])
          /\ files' = IF produced
                      THEN (<<cwd, "config.json">> :>
                               [generated |-> ocitools_cmd]) @@ files
                      ELSE files
          /\ IF CheckCallRaises(status)
             THEN exc' = "CalledProcessError" /\ pc' = "gf_finally"
             ELSE exc' = exc /\ pc' = "gf_move"
    /\ UNCHANGED << cwd, dirs, written >>
    /\ UNCHANGED << messages, error, exitCode >>
    /\ UNCHANGED << parserVars, localVars, constVars >>

\* shutil.move('config.json', config_out): the file leaves the working
\* directory for <output>/config.json.template, or the move fails
GF_Move ==
    /\ pc = "gf_move"
    /\ LET src == <<cwd, "config.json">>
           config_out == <<output, "config.json.template">>
       IN  \E ok \in BOOLEAN :
              IF ok /\ src \in DOMAIN files
              THEN /\ files' = (config_out :> files[src]) @@
                               [p \in DOMAIN files \ {src} |-> files[p]]
                   /\ written' = Append(written, config_out)
                   /\ exc' = exc
              ELSE /\ exc' = "OSError"
                   /\ UNCHANGED << files, written >>
    /\ pc' = "gf_finally"
    /\ UNCHANGED << cwd, dirs >>
    /\ UNCHANGED << messages, error, exitCode, calls >>
    /\ UNCHANGED << parserVars, localVars, constVars >>

\* variant: the cleanup follows the try block instead of being its finally
GF_CleanupOnSuccess ==
    /\ pc = "gf_finally"
    /\ IF exc = None
       THEN /\ popd_call
            /\ dirs' = dirs \ {temp_dir}
            /\ files' = [p \in {q \in DOMAIN files : q[1] # temp_dir}
                            |-> files[p]]
       ELSE UNCHANGED << cwd, dirs, files >>
    /\ Leave
    /\ UNCHANGED written
    /\ UNCHANGED << parserVars, localVars, outVars, constVars >>

\* variant: a failure removes the files the run wrote
GF_FinallyRollback ==
    /\ pc = "gf_finally"
    /\ popd_call
    /\ dirs' = dirs \ {temp_dir}
    /\ files' = [p \in {q \in DOMAIN files :
                          /\ q[1] # temp_dir
                          /\ exc # None =>
                                \A i \in 1..Len(written) : written[i] # q}
                    |-> files[p]]
    /\ Leave
    /\ UNCHANGED written
    /\ UNCHANGED << parserVars, localVars, outVars, constVars >>

\* finally: popd(); shutil.rmtree(temp_dir)
GF_Finally ==
    /\ pc = "gf_finally"
    /\ popd_call
    /\ dirs' = dirs \ {temp_dir}
    /\ files' = [p \in {q \in DOMAIN files : q[1] # temp_dir} |-> files[p]]
    /\ Leave
    /\ UNCHANGED written
    /\ UNCHANGED << parserVars, localVars, outVars, constVars >>

(***************************************************************************)
(* GenerateDockerfileAction.__call__                                       *)
(***************************************************************************)
\* output = util.mkdir(namespace.output)
GD_Mkdir ==
    /\ pc = "gd_mkdir"
    /\ output' = mkdir(ns.output)
    /\ dirs' = dirs \cup {mkdir(ns.output)}
    /\ pc' = "gd_write"
    /\ UNCHANGED << manifest_struct, temp_dir, popd, ocitools_cmd >>
    /\ UNCHANGED << cwd, files, written >>
    /\ UNCHANGED << parserVars, outVars, constVars >>

\* Dockerfile.j2 rendered with the nine parameters
RenderDockerfile(n, name) ==
    [template |-> "Dockerfile.j2", from_base |-> n.from_base, name |-> name,
     maintainer |-> n.maintainer, license_name |-> n.license,
     summary |-> n.summary, version |-> n.version,
     help_text |-> n.help_text, architecture |-> n.architecture,
     scope |-> n.scope]

GD_Write ==
    /\ pc = "gd_write"
    /\ WriteFile(<<output, "Dockerfile">>, RenderDockerfile(ns, values))
    /\ pc' = "parse"
    /\ UNCHANGED << cwd, dirs >>
    /\ UNCHANGED << parserVars, localVars, outVars, constVars >>

(***************************************************************************)
(* BuildAction.__call__                                                    *)
(***************************************************************************)
\* popd = util.pushd(path): changing to a missing directory raises
BA_Pushd ==
    /\ pc = "ba_pushd"
    /\ IF Resolve(cwd, ns.path) \in dirs
       THEN /\ pushd(ns.path)
            /\ pc' = "ba_check_call"
            /\ exc' = exc
       ELSE /\ Raise("OSError")
            /\ UNCHANGED << cwd, popd >>
    /\ UNCHANGED << output, manifest_struct, temp_dir, ocitools_cmd >>
    /\ UNCHANGED << dirs, files, written >>
    /\ UNCHANGED << messages, error, exitCode, calls >>
    /\ UNCHANGED << parserVars, constVars >>

\* subprocess.check_call(['docker', 'build', '-t', tag, '.'])
BA_CheckCall ==
    /\ pc = "ba_check_call"
    /\ \E status \in ExitStatuses :
          /\ calls' = Append(calls,
                             [argv |-> <<"docker", "build", "-t", values,
                                         ".">>,
                              status |-> status])
          /\ exc' = IF CheckCallRaises(status)
                    THEN "CalledProcessError" ELSE exc
    /\ pc' = "ba_finally"
    /\ UNCHANGED << messages, error, exitCode >>
    /\ UNCHANGED << parserVars, localVars, fsVars, constVars >>

\* variant: popd() follows the try block instead of being its finally
BA_PopdOnSuccess ==
    /\ pc = "ba_finally"
    /\ IF exc = None THEN popd_call ELSE UNCHANGED cwd
    /\ Leave
    /\ UNCHANGED << dirs, files, written >>
    /\ UNCHANGED << parserVars, localVars, outVars, constVars >>

\* finally: popd()
BA_Finally ==
    /\ pc = "ba_finally"
    /\ popd_call
    /\ Leave
    /\ UNCHANGED << dirs, files, written >>
    /\ UNCHANGED << parserVars, localVars, outVars, constVars >>

(***************************************************************************)
(* TarAction.__call__                                                      *)
(***************************************************************************)
\* '{}.tar'.format(values)
TarName(image) == image \o ".tar"

\* subprocess.check_call(['docker', 'save', '-o', '<image>.tar', image]):
\* docker leaves the tar file when it succeeds
TA_CheckCall ==
    /\ pc = "ta_check_call"
    /\ \E status \in ExitStatuses :
          /\ calls' = Append(calls,
                             [argv |-> <<"docker", "save", "-o",
                                         TarName(values), values>>,
                              status |-> status])
          /\ IF CheckCallRaises(status)
             THEN /\ Raise("CalledProcessError")
                  /\ files' = files
             ELSE /\ pc' = "parse"
                  /\ exc' = exc
                  /\ files' = (<<cwd, TarName(values)>> :>
                                  [saved |-> values]) @@ files
    /\ UNCHANGED << cwd, dirs, written >>
    /\ UNCHANGED << messages, error, exitCode >>
    /\ UNCHANGED << parserVars, localVars, constVars >>

(***************************************************************************)
(* The program.                                                            *)
(***************************************************************************)
Next ==
    \/ Main_SelectCommand
    \/ Main_NoCommand
    \/ ParseDefault
    \/ ParseDescription
    \/ ParseConfig
    \/ ParseDockerOption
    \/ ParseScope
    \/ ParseScopeInvalid
    \/ ParsePath
    \/ ParsePositional
    \/ ParseEnd
    \/ GF_Mkdir
    \/ GF_Overrides
    \/ GF_WriteManifest
    \/ GF_WriteService
    \/ GF_Mkdtemp
    \/ GF_BuildCmd
    \/ GF_CheckCall
    \/ GF_Move
    \/ GF_Finally
    \/ GD_Mkdir
    \/ GD_Write
    \/ BA_Pushd
    \/ BA_CheckCall
    \/ BA_Finally
    \/ TA_CheckCall
    \/ Main_Except
    \/ Main_Uncaught
    \/ Main_Exit

Spec == Init /\ [][Next]_vars

(***************************************************************************)
(* Reading the command line and the file system back, for the properties.  *)
(***************************************************************************)
\* the number of '=' in a token
CountEq(t) == Cardinality({i \in 1..Len(t) : t[i] = "="})

\* the position of a '=' in a token that has one
EqPos(t) == CHOOSE i \in 1..Len(t) : t[i] = "="

\* what stands left and right of the '=' of a token that has exactly one
KeyOf(t) == SubSeq(t, 1, EqPos(t) - 1)
ValueOf(t) == SubSeq(t, EqPos(t) + 1, Len(t))

\* a token with exactly one '=' and nothing on one side of it
OneSided(t) == CountEq(t) = 1 /\ (KeyOf(t) = <<>> \/ ValueOf(t) = <<>>)

\* the arguments given to the option dest among opts, in order
Given(opts, dest) ==
    LET g == SelectSeq(opts, LAMBDA o : o.dest = dest)
    IN  [i \in 1..Len(g) |-> g[i].value]

\* the last argument given to the option dest among opts, or its default
LastGiven(opts, dest, default) ==
    LET g == SelectSeq(opts, LAMBDA o : o.dest = dest)
    IN  IF Len(g) = 0 THEN default ELSE g[Len(g)].value

\* the -D tokens the generate-files action saw
Overrides == Given(before, "default")

ManifestPath == <<OutDir, "manifest.json">>
ServicePath == <<OutDir, "service.template">>
ConfigPath == <<OutDir, "config.json.template">>

\* the generate-files action is past writing manifest.json
ManifestDone ==
    /\ cmd = "generate-files" /\ posSeen
    /\ pc \notin {"gf_mkdir", "gf_overrides", "gf_write_manifest"}

\* the action of the sub-command ran and has returned or raised
ActionEnded ==
    posSeen /\ pc \in {"parse", "main_exit", "main_except", "exit"}

\* an external process this run started exited nonzero
CallFailed == \E i \in 1..Len(calls) : calls[i].status # 0

\* the skip diagnostics for the tokens of toks that satisfy Bad, in order
SkipsFor(toks, Bad(_)) ==
    LET bad == SelectSeq(toks, Bad)
    IN  [i \in 1..Len(bad) |-> [kind |-> "skip", item |-> bad[i]]]

NotOneEq(t) == CountEq(t) # 1

(***************************************************************************)
(* C1: a -D token without exactly one '=' contributes no key to the        *)
(* written manifest's defaultValues, exactly one "not in a=b format"       *)
(* diagnostic is printed for each such token, the other tokens are still   *)
(* processed and the manifest is written.                                  *)
(***************************************************************************)
C1_MalformedSkipped ==
    ManifestDone =>
        /\ ManifestPath \in DOMAIN files
        /\ DOMAIN files[ManifestPath].defaultValues =
              { KeyOf(Overrides[i]) :
                  i \in {j \in 1..Len(Overrides) : CountEq(Overrides[j]) = 1} }
        /\ messages = SkipsFor(Overrides, NotOneEq)

\* ["a=1", "b=2=2", "c=3"] gave {a: 1, c: 3} and one diagnostic
C1_Witness ==
    /\ pc = "exit" /\ exitCode = 0 /\ cmd = "generate-files" /\ posSeen
    /\ Overrides = << <<"a", "=", "1">>, <<"b", "=", "2", "=", "2">>,
                      <<"c", "=", "3">> >>
    /\ files[ManifestPath].defaultValues =
          (<<"a">> :> <<"1">>) @@ (<<"c">> :> <<"3">>)
    /\ messages = << [kind |-> "skip",
                      item |-> <<"b", "=", "2", "=", "2">>] >>

(***************************************************************************)
(* C2: overrides are applied in input order onto an empty mapping: every   *)
(* key of a token with exactly one '=' is in the manifest with the value   *)
(* of the last such token of that key, the version is "1.0", and a         *)
(* malformed token does not change an earlier value.                       *)
(***************************************************************************)
C2_LastWriteWins ==
    ManifestDone =>
        LET m == files[ManifestPath]
            wf == {j \in 1..Len(Overrides) : CountEq(Overrides[j]) = 1}
        IN  /\ m.version = "1.0"
            /\ \A i \in wf :
                  /\ KeyOf(Overrides[i]) \in DOMAIN m.defaultValues
                  /\ (\A j \in wf : KeyOf(Overrides[j]) = KeyOf(Overrides[i])
                                      => j <= i)
                     => m.defaultValues[KeyOf(Overrides[i])] =
                           ValueOf(Overrides[i])

\* a=1, then a=2, then the malformed a: the manifest holds a: 2
C2_Witness ==
    /\ pc = "exit" /\ cmd = "generate-files" /\ posSeen
    /\ Overrides = << <<"a", "=", "1">>, <<"a", "=", "2">>, <<"a">> >>
    /\ files[ManifestPath] =
          [version |-> "1.0", defaultValues |-> (<<"a">> :> <<"2">>)]

(***************************************************************************)
(* C3: a --scope value outside the choices ends generate-dockerfile with   *)
(* an invalid-choice error and no Dockerfile has been written, wherever    *)
(* --scope stands relative to the positional name.                         *)
(***************************************************************************)
C3_InvalidScopeWritesNothing ==
    error.kind = "invalid choice" =>
        /\ exitCode = 2
        /\ \A i \in 1..Len(written) : written[i][2] # "Dockerfile"
        /\ files = files0

(***************************************************************************)
(* C4: a nonzero exit status of an external process is not swallowed: the  *)
(* process ends nonzero with a message naming the command and its status,  *)
(* nothing that follows the call in the action runs (no config template    *)
(* is moved in place, no tar file is there, no further argument is read),  *)
(* and the process exits zero only when every call returned zero.          *)
(***************************************************************************)
C4_FailureSurfaces ==
    /\ CallFailed =>
          /\ pc \in {"gf_finally", "ba_finally", "main_except", "exit"}
          /\ exc = "CalledProcessError" \/ pc = "exit"
          /\ after = <<>>
          /\ \A i \in 1..Len(written) : written[i] # ConfigPath
          /\ cmd = "tar" => files = files0
    /\ (CallFailed /\ pc = "exit") =>
          /\ exitCode # 0
          /\ error.kind = "Unable to execute command"
          /\ error.argv = calls[Len(calls)].argv
          /\ error.status = calls[Len(calls)].status
    /\ exitCode = 0 => \A i \in 1..Len(calls) : calls[i].status = 0

\* docker save exited 1: exit status 2, the message names docker save and 1
C4_Witness ==
    /\ pc = "exit" /\ cmd = "tar" /\ exitCode = 2
    /\ error = [kind |-> "Unable to execute command",
                argv |-> <<"docker", "save", "-o", "img.tar", "img">>,
                status |-> 1]
    /\ <<cwd, "img.tar">> \notin DOMAIN files

(***************************************************************************)
(* C5: when the generate-files action ends, the temporary directory is     *)
(* gone, whether ocitools succeeded, exited nonzero or the move failed;    *)
(* on success config.json is at <output>/config.json.template and nowhere  *)
(* in the temporary location.                                              *)
(***************************************************************************)
C5_TempDirRemoved ==
    (cmd = "generate-files" /\ ActionEnded) =>
        /\ temp_dir = TempDir
        /\ temp_dir \notin dirs
        /\ \A p \in DOMAIN files : p[1] # temp_dir
        /\ exc = None =>
              /\ ConfigPath \in DOMAIN files
              /\ files[ConfigPath] = [generated |-> calls[1].argv]
              /\ written[Len(written)] = ConfigPath

\* ocitools succeeded and left a config.json, the move failed
C5_Witness ==
    /\ cmd = "generate-files" /\ pc = "exit" /\ exc = "OSError"
    /\ calls[1].status = 0
    /\ TempDir \notin dirs
    /\ ConfigPath \notin DOMAIN files

C7_OneSidedSkipped ==
    ManifestDone =>
        \A i \in 1..Len(Overrides) :
            OneSided(Overrides[i]) =>
                /\ \E k \in 1..Len(messages) :
                      messages[k] = [kind |-> "skip", item |-> Overrides[i]]
                /\ KeyOf(Overrides[i]) \in
                      DOMAIN files[ManifestPath].defaultValues
                   => \E j \in 1..Len(Overrides) :
                         /\ CountEq(Overrides[j]) = 1
                         /\ ~OneSided(Overrides[j])
                         /\ KeyOf(Overrides[j]) = KeyOf(Overrides[i])

\* C7 as amended: a -D token with exactly one '=' and an empty key or an
\* empty value is well-formed: no diagnostic is printed for it, its key is
\* in defaultValues, with its value unless a later token with exactly one
\* '=' has the same key, and the other tokens are still processed.
C7_OneSidedAccepted ==
    ManifestDone =>
        /\ Len(messages) =
              Cardinality({j \in 1..Len(Overrides) :
                              CountEq(Overrides[j]) # 1})
        /\ \A i \in 1..Len(Overrides) :
              OneSided(Overrides[i]) =>
                 LET dv == files[ManifestPath].defaultValues
                 IN  /\ \A k \in 1..Len(messages) :
                           messages[k].item # Overrides[i]
                     /\ KeyOf(Overrides[i]) \in DOMAIN dv
                     /\ (\A j \in 1..Len(Overrides) :
                            (j > i /\ CountEq(Overrides[j]) = 1)
                               => KeyOf(Overrides[j]) # KeyOf(Overrides[i]))
                        => dv[KeyOf(Overrides[i])] = ValueOf(Overrides[i])

\* "a=" and "=1" were given with the malformed "a": both are in the manifest
C7_Witness ==
    /\ pc = "exit" /\ cmd = "generate-files" /\ posSeen
    /\ Overrides = << <<"a", "=">>, <<"a">>, <<"=", "1">> >>
    /\ files[ManifestPath].defaultValues =
          (<<"a">> :> <<>>) @@ (<<>> :> <<"1">>)
    /\ Len(messages) = 1

\* the key and the value of every token of toks with exactly one '='
RECURSIVE KeysAndValues(_)
KeysAndValues(toks) ==
    IF toks = <<>> THEN <<>>
    ELSE (IF CountEq(Head(toks)) = 1
          THEN <<KeyOf(Head(toks)), ValueOf(Head(toks))>>
          ELSE <<>>) \o KeysAndValues(Tail(toks))

\* the pieces of every token of toks, whatever the number of its '='
RECURSIVE AllPieces(_)
AllPieces(toks) ==
    IF toks = <<>> THEN <<>>
    ELSE Split(Head(toks), "=") \o AllPieces(Tail(toks))

\* the --config string the generate-files action saw, split on spaces
ConfigTokens == Split(LastGiven(before, "config", <<>>), " ")

\* the generate-files action is past building the ocitools command
CommandBuilt ==
    /\ cmd = "generate-files" /\ posSeen
    /\ pc \notin {"gf_mkdir", "gf_overrides", "gf_write_manifest",
                  "gf_write_service", "gf_mkdtemp", "gf_build_cmd"}

(***************************************************************************)
(* C8: every token of the --config string without exactly one '=' (the     *)
(* empty token included) is skipped with a diagnostic and adds nothing to  *)
(* the ocitools argument vector, which is ['ocitools', 'generate'] and     *)
(* then the key and value of each well-formed token, in input order.       *)
(***************************************************************************)
C8_ConfigTokensSkipped ==
    CommandBuilt =>
        /\ ocitools_cmd = <<OCITOOLS, GENERATE>> \o KeysAndValues(ConfigTokens)
        /\ messages = SkipsFor(Overrides, NotOneEq) \o
                      SkipsFor(ConfigTokens, NotOneEq)

(***************************************************************************)
(* C9: generate-files creates the output directory, writes manifest.json,  *)
(* writes service.template, and only then runs ocitools and moves its      *)
(* output; nothing is rolled back: when ocitools exits nonzero the output  *)
(* directory exists and holds this run's complete manifest.json and        *)
(* service.template, and config.json.template is as it was before the run. *)
(***************************************************************************)
C9_OrderNoRollback ==
    cmd = "generate-files" =>
        /\ \A i \in 1..Len(written) :
              written[i] = <<ManifestPath, ServicePath, ConfigPath>>[i]
        /\ Len(written) >= 1 => OutDir \in dirs
        /\ (temp_dir # None \/ Len(calls) > 0) => Len(written) >= 2
        /\ CallFailed =>
              /\ OutDir \in dirs
              /\ {ManifestPath, ServicePath} \subseteq DOMAIN files
              /\ files[ManifestPath] = manifest_struct
              /\ manifest_struct.version = "1.0"
              /\ DOMAIN manifest_struct.defaultValues =
                    { KeyOf(Overrides[i]) :
                        i \in {j \in 1..Len(Overrides) :
                                  CountEq(Overrides[j]) = 1} }
              /\ files[ServicePath] =
                    [template |-> "service.template.j2",
                     description |->
                         LastGiven(before, "description", "UNKNOWN")]
              /\ (ConfigPath \in DOMAIN files) = (ConfigPath \in DOMAIN files0)
              /\ ConfigPath \in DOMAIN files =>
                    files[ConfigPath] = files0[ConfigPath]

\* ocitools failed over an output directory that held older files
C9_Witness ==
    /\ cmd = "generate-files" /\ pc = "exit" /\ posSeen
    /\ calls[1].status = 1
    /\ files0 = StaleFiles
    /\ files[ManifestPath] =
          [version |-> "1.0", defaultValues |-> (<<"a">> :> <<"1">>)]
    /\ files[ServicePath].description = "demo"
    /\ files[ConfigPath] = [kind |-> "stale"]

(***************************************************************************)
(* C10: an action runs when the positional argument is consumed, reading   *)
(* the namespace as it stands then: the files written reflect exactly the  *)
(* options given before the positional, and an option given after it has   *)
(* no effect on them (its default is used).                                *)
(***************************************************************************)
C10_OptionsBeforePositional ==
    /\ (cmd = "generate-files" /\ ActionEnded) =>
          /\ DOMAIN files[ManifestPath].defaultValues =
                { KeyOf(Overrides[i]) :
                    i \in {j \in 1..Len(Overrides) :
                              CountEq(Overrides[j]) = 1} }
          /\ files[ServicePath].description =
                LastGiven(before, "description", "UNKNOWN")
          /\ calls[1].argv = <<OCITOOLS, GENERATE>> \o AllPieces(ConfigTokens)
    /\ (cmd = "generate-dockerfile" /\ ActionEnded) =>
          LET dir == Resolve(cwd0, LastGiven(before, "output", "."))
          IN  /\ <<dir, "Dockerfile">> \in DOMAIN files
              /\ files[<<dir, "Dockerfile">>] =
                    [template |-> "Dockerfile.j2",
                     from_base |->
                         LastGiven(before, "from_base", "centos:latest"),
                     name |-> values,
                     maintainer |-> LastGiven(before, "maintainer", "UNKNOWN"),
                     license_name |-> LastGiven(before, "license", "UNKNOWN"),
                     summary |-> LastGiven(before, "summary", "UNKNOWN"),
                     version |-> LastGiven(before, "version", "1"),
                     help_text |-> LastGiven(before, "help_text", "No help"),
                     architecture |->
                         LastGiven(before, "architecture", "x86_64"),
                     scope |-> LastGiven(before, "scope", "private")]

\* -D a=1 before the output directory, -d demo and -D c=3 after it
C10_Witness ==
    /\ cmd = "generate-files" /\ pc = "exit" /\ exitCode = 0
    /\ Overrides = << <<"a", "=", "1">> >>
    /\ Given(after, "default") = << <<"c", "=", "3">> >>
    /\ Given(after, "description") = <<"demo">>
    /\ Given(before, "description") = <<>>
    /\ ns.description = "demo"
    /\ files[ServicePath].description = "UNKNOWN"
    /\ files[ManifestPath].defaultValues = (<<"a">> :> <<"1">>)

====
